---------------------------- MODULE Spec2Model ----------------------------
(***************************************************************************)
(* A model of the segmentation and lyric-alignment core of choir2anki      *)
(* (src/choir2anki.py): create_normal_lyrics, create_lyric_slice,          *)
(* count_singable_notes, the splitting loop of create_normal_note_shards   *)
(* and the per-shard lyric selection of main.                              *)
(*                                                                         *)
(* Python strings are TLA+ strings; str.split, str.join, str.startswith    *)
(* and str.endswith are computed character by character.  Each function is *)
(* a small state machine over its local variables, one action per loop     *)
(* iteration; the loop bodies are operators so that main can call the      *)
(* functions as the code does.                                             *)
(***************************************************************************)
EXTENDS Integers, Sequences, FiniteSets, TLC

VARIABLES
    pc,                         \* position of the running function
    lilypond_notes,             \* argument of count_singable_notes
    lilypond_lyrics,            \* argument of create_normal_lyrics / create_lyric_slice
    tokens,                     \* tokens = <argument>.split()
    t_pos,                      \* number of tokens the for loop has consumed
    singable_notes,             \* count_singable_notes locals
    next_is_tie,
    open_parantheses,
    words,                      \* create_normal_lyrics locals
    join_next,
    lyric_slice,                \* create_lyric_slice locals and arguments
    syllable_counter,
    slice_start,
    slice_end,
    result,                     \* the string a lyric function returned
    all_notes,                  \* normalized_notes as computed at line 272
    normalized_notes,           \* create_normal_note_shards locals
    shard_lengths,
    l_pos,                      \* number of shard_lengths the for loop has consumed
    shard,
    num_comments_found,
    num_comments_compensated,
    note_shards,
    lyrics,                     \* main locals
    shard_num,
    num_seen_singable_notes,
    qustn_lyrics,
    answr_lyrics

tokenVars  == <<lilypond_notes, lilypond_lyrics, tokens, t_pos>>
countVars  == <<singable_notes, next_is_tie, open_parantheses>>
normalVars == <<words, join_next>>
sliceVars  == <<lyric_slice, syllable_counter, slice_start, slice_end>>
shardVars  == <<all_notes, normalized_notes, shard_lengths, l_pos, shard,
                num_comments_found, num_comments_compensated>>
mainVars   == <<lyrics, shard_num, num_seen_singable_notes, qustn_lyrics,
                answr_lyrics>>
vars == <<pc, tokenVars, countVars, normalVars, sliceVars, result, shardVars,
          note_shards, mainVars>>

---------------------------------------------------------------------------
(* Bounds of the model.                                                    *)

MaxNoteTokens == 4
MaxLyricTokens == 5
MaxSliceTokens == 4
MaxIndex == 4
MaxNotes == 4
MaxSegments == 3
MaxLength == 2
MaxShards == 2
MaxMainTokens == 4

BoundedSeq(S, n) == UNION {[1..k -> S] : k \in 0..n}

---------------------------------------------------------------------------
(* Python string operations.                                               *)

Min(a, b) == IF a < b THEN a ELSE b

\* s[i] of a Python string, 1-based
CharAt(s, i) == SubSeq(s, i, i)

\* str.startswith(prefix)
StartsWith(s, prefix) ==
    /\ Len(s) >= Len(prefix)
    /\ SubSeq(s, 1, Len(prefix)) = prefix

\* str.endswith(suffix)
EndsWith(s, suffix) ==
    /\ Len(s) >= Len(suffix)
    /\ SubSeq(s, Len(s) - Len(suffix) + 1, Len(s)) = suffix

\* re.match('^[a-g]', t)
IsPitch(t) ==
    /\ Len(t) >= 1
    /\ CharAt(t, 1) \in {"a", "b", "c", "d", "e", "f", "g"}

\* The characters str.split() separates at (str.isspace): tab, line feed,
\* vertical tab, form feed, carriage return, U+001C to U+001F, blank, U+0085,
\* U+00A0 and U+1680.  The module is UTF-8 text; the last three are written
\* as themselves and are one character each only when it is read as UTF-8.
\* The remaining sixteen characters of str.isspace (U+2000 to U+200A, U+2028,
\* U+2029, U+202F, U+205F, U+3000) have no string literal in TLA+, so no
\* string of this module contains them and Split is not defined on such
\* input.
Whitespace ==
    {"\t", "\n", "", "\f", "\r", "", "", "", "", " ", "", " ", " "}

\* str.split(): maximal runs of non-whitespace characters, in order
RECURSIVE SplitFrom(_, _, _)
SplitFrom(s, i, cur) ==
    IF i > Len(s)
    THEN IF cur = "" THEN <<>> ELSE <<cur>>
    ELSE IF CharAt(s, i) \in Whitespace
         THEN (IF cur = "" THEN <<>> ELSE <<cur>>) \o SplitFrom(s, i + 1, "")
         ELSE SplitFrom(s, i + 1, cur \o CharAt(s, i))

Split(s) == SplitFrom(s, 1, "")

\* " ".join(seq)
RECURSIVE Join(_)
Join(seq) ==
    IF seq = <<>> THEN ""
    ELSE IF Len(seq) = 1 THEN seq[1]
    ELSE seq[1] \o " " \o Join(Tail(seq))

\* list[:n] and list[n:] for n >= 0
TakeList(list, n) == SubSeq(list, 1, Min(n, Len(list)))
DropList(list, n) == SubSeq(list, Min(n, Len(list)) + 1, Len(list))

---------------------------------------------------------------------------
(* Input vocabularies.                                                     *)

NoteVocabulary == {"c4", "c8", "d8", "r4", "c4~", "c4(", "e8)"}
LyricVocabulary == {"la", "ry", "--", "__"}
SliceVocabulary == {"la", "--", "__"}
MaryLine == "Ma -- ry had a lit -- tle lamb"
CountingLine == "one two three four"
\* lines as extract_information_from_source leaves them: line 140 replaces
\* each newline (and, through open() in text mode, each carriage return) by a
\* blank and strips both ends; tabs and form feeds inside the line stay
TabbedMaryLine == "Ma -- ry had \ta lit -- tle lamb"
TabbedCountingLine == "one\ttwo   three\ffour"
TabbedNotes == "c4~\tc8  c4(\te8)"
NormalizedVocabulary == {"c'4", "d'8", "%%% \\time 3/4 %%%"}
ShardVocabulary == {"c'4", "c'4 d'8", "r4", "c'4 ~ c'8"}
MainVocabulary == {"Ma", "--", "__"}

IdleTokens ==
    /\ lilypond_notes = "" /\ lilypond_lyrics = "" /\ tokens = <<>> /\ t_pos = 0
IdleCount ==
    /\ singable_notes = 0 /\ next_is_tie = FALSE /\ open_parantheses = 0
IdleNormal ==
    /\ words = <<>> /\ join_next = FALSE
IdleSlice ==
    /\ lyric_slice = <<>> /\ syllable_counter = 0
    /\ slice_start = 0 /\ slice_end = 0
IdleShards ==
    /\ all_notes = <<>> /\ normalized_notes = <<>> /\ shard_lengths = <<>>
    /\ l_pos = 0 /\ shard = <<>>
    /\ num_comments_found = 0 /\ num_comments_compensated = 0
IdleMain ==
    /\ lyrics = "" /\ shard_num = 0 /\ num_seen_singable_notes = 0
    /\ qustn_lyrics = "" /\ answr_lyrics = ""

---------------------------------------------------------------------------
(* count_singable_notes (lines 179-199).                                   *)

\* A mutation of the loop body: after a tied token the pending-tie flag is
\* cleared instead of being set from the token's own suffix.
CountStepTieNotChained(st, t) ==
    LET closes == EndsWith(t, ")")
        depth == IF closes THEN st.open_parantheses - 1 ELSE st.open_parantheses
        count == IF closes /\ depth = 0
                 THEN st.singable_notes + 1 ELSE st.singable_notes
    IN  IF st.next_is_tie
        THEN [singable_notes |-> count,
              next_is_tie |-> FALSE,
              open_parantheses |-> depth]
        ELSE [singable_notes |->
                  IF depth = 0 /\ IsPitch(t) THEN count + 1 ELSE count,
              next_is_tie |-> EndsWith(t, "~"),
              open_parantheses |->
                  IF EndsWith(t, "(") THEN depth + 1 ELSE depth]

\* One iteration of the for loop, lines 185-198, on the locals st.
CountStep(st, t) ==
    LET closes == EndsWith(t, ")")
        depth == IF closes THEN st.open_parantheses - 1 ELSE st.open_parantheses
        count == IF closes /\ depth = 0
                 THEN st.singable_notes + 1 ELSE st.singable_notes
    IN  IF st.next_is_tie
        THEN \* lines 190-192: continue, nothing below runs
             [singable_notes |-> count,
              next_is_tie |-> EndsWith(t, "~"),
              open_parantheses |-> depth]
        ELSE [singable_notes |->
                  IF depth = 0 /\ IsPitch(t) THEN count + 1 ELSE count,
              next_is_tie |-> EndsWith(t, "~"),
              open_parantheses |->
                  IF EndsWith(t, "(") THEN depth + 1 ELSE depth]

RECURSIVE CountFrom(_, _, _)
CountFrom(toks, i, st) ==
    IF i > Len(toks) THEN st
    ELSE CountFrom(toks, i + 1, CountStep(st, toks[i]))

\* The function as main calls it: the returned count.
count_singable_notes(notes, open) ==
    CountFrom(Split(notes), 1,
              [singable_notes |-> 0, next_is_tie |-> FALSE,
               open_parantheses |-> open]).singable_notes

InitCount ==
    /\ lilypond_notes \in
           {Join(ts) : ts \in BoundedSeq(NoteVocabulary, MaxNoteTokens)}
           \cup {TabbedNotes}
    /\ lilypond_lyrics = ""
    /\ tokens = Split(lilypond_notes)
    /\ t_pos = 0
    /\ IdleCount /\ IdleNormal /\ IdleSlice /\ IdleShards /\ IdleMain
    /\ result = "" /\ note_shards = <<>>
    /\ pc = "count_for"

CountLoop ==
    /\ pc = "count_for"
    /\ t_pos < Len(tokens)
    /\ LET st == CountStep([singable_notes |-> singable_notes,
                            next_is_tie |-> next_is_tie,
                            open_parantheses |-> open_parantheses],
                           tokens[t_pos + 1])
       IN  /\ singable_notes' = st.singable_notes
           /\ next_is_tie' = st.next_is_tie
           /\ open_parantheses' = st.open_parantheses
    /\ t_pos' = t_pos + 1
    /\ UNCHANGED <<pc, lilypond_notes, lilypond_lyrics, tokens, normalVars,
                   sliceVars, result, shardVars, note_shards, mainVars>>

CountReturn ==
    /\ pc = "count_for"
    /\ t_pos = Len(tokens)
    /\ pc' = "count_done"
    /\ UNCHANGED <<tokenVars, countVars, normalVars, sliceVars, result,
                   shardVars, note_shards, mainVars>>

NextCount == CountLoop \/ CountReturn

SpecCount == InitCount /\ [][NextCount]_vars

---------------------------------------------------------------------------
(* create_normal_lyrics (lines 148-164).                                   *)

\* A mutation of the loop body: the join flag is not cleared after a join.
NormalStepJoinSticks(st, t) ==
    IF t = "__" THEN st
    ELSE IF t = "--" THEN [st EXCEPT !.join_next = TRUE]
    ELSE IF st.join_next
         THEN IF st.words = <<>>
              THEN [st EXCEPT !.raised = TRUE]
              ELSE [st EXCEPT !.words[Len(st.words)] = @ \o t]
         ELSE [st EXCEPT !.words = Append(@, t)]

\* One iteration of the for loop, lines 155-163, on the locals st; raised
\* is the IndexError of words[-1] on an empty list (line 160).
NormalStep(st, t) ==
    IF t = "__" THEN st
    ELSE IF t = "--" THEN [st EXCEPT !.join_next = TRUE]
    ELSE IF st.join_next
         THEN IF st.words = <<>>
              THEN [st EXCEPT !.raised = TRUE]
              ELSE [st EXCEPT !.words[Len(st.words)] = @ \o t,
                              !.join_next = FALSE]
         ELSE [st EXCEPT !.words = Append(@, t)]

RECURSIVE NormalFrom(_, _, _)
NormalFrom(toks, i, st) ==
    IF i > Len(toks) \/ st.raised THEN st
    ELSE NormalFrom(toks, i + 1, NormalStep(st, toks[i]))

\* The function as main calls it: whether it raised, and the string returned.
create_normal_lyrics(text) ==
    LET st == NormalFrom(Split(text), 1,
                         [words |-> <<>>, join_next |-> FALSE, raised |-> FALSE])
    IN  [raised |-> st.raised,
         value |-> IF st.raised THEN "" ELSE Join(st.words)]

InitNormal ==
    /\ lilypond_lyrics \in
           {Join(ts) : ts \in BoundedSeq(LyricVocabulary, MaxLyricTokens)}
           \cup {MaryLine, TabbedMaryLine}
    /\ lilypond_notes = ""
    /\ tokens = Split(lilypond_lyrics)
    /\ t_pos = 0
    /\ IdleCount /\ IdleNormal /\ IdleSlice /\ IdleShards /\ IdleMain
    /\ result = "" /\ note_shards = <<>>
    /\ pc = "normal_for"

NormalLoop ==
    /\ pc = "normal_for"
    /\ t_pos < Len(tokens)
    /\ LET st == NormalStep([words |-> words, join_next |-> join_next,
                             raised |-> FALSE], tokens[t_pos + 1])
       IN  /\ words' = st.words
           /\ join_next' = st.join_next
           /\ pc' = IF st.raised THEN "IndexError" ELSE pc
    /\ t_pos' = t_pos + 1
    /\ UNCHANGED <<lilypond_notes, lilypond_lyrics, tokens, countVars,
                   sliceVars, result, shardVars, note_shards, mainVars>>

NormalReturn ==
    /\ pc = "normal_for"
    /\ t_pos = Len(tokens)
    /\ result' = Join(words)
    /\ pc' = "normal_done"
    /\ UNCHANGED <<tokenVars, countVars, normalVars, sliceVars, shardVars,
                   note_shards, mainVars>>

NextNormal == NormalLoop \/ NormalReturn

SpecNormal == InitNormal /\ [][NextNormal]_vars

---------------------------------------------------------------------------
(* create_lyric_slice (lines 166-177).                                     *)

\* A mutation of the loop body: the upper bound of the window is inclusive.
SliceStepInclusive(st, t, start, end) ==
    [lyric_slice |->
         IF start <= st.syllable_counter /\ st.syllable_counter <= end
         THEN Append(st.lyric_slice, t) ELSE st.lyric_slice,
     syllable_counter |->
         IF t # "--" THEN st.syllable_counter + 1 ELSE st.syllable_counter]

\* One iteration of the for loop, lines 173-176, on the locals st.
SliceStep(st, t, start, end) ==
    [lyric_slice |->
         IF start <= st.syllable_counter /\ st.syllable_counter < end
         THEN Append(st.lyric_slice, t) ELSE st.lyric_slice,
     syllable_counter |->
         IF t # "--" THEN st.syllable_counter + 1 ELSE st.syllable_counter]

RECURSIVE SliceFrom(_, _, _, _, _)
SliceFrom(toks, i, st, start, end) ==
    IF i > Len(toks) THEN st
    ELSE SliceFrom(toks, i + 1, SliceStep(st, toks[i], start, end), start, end)

\* The function as main calls it.
create_lyric_slice(text, start, end) ==
    Join(SliceFrom(Split(text), 1,
                   [lyric_slice |-> <<>>, syllable_counter |-> 0],
                   start, end).lyric_slice)

InitSlice ==
    /\ lilypond_lyrics \in
           {Join(ts) : ts \in BoundedSeq(SliceVocabulary, MaxSliceTokens)}
           \cup {CountingLine, TabbedCountingLine}
    /\ lilypond_notes = ""
    /\ tokens = Split(lilypond_lyrics)
    /\ t_pos = 0
    /\ slice_start \in 0..MaxIndex
    /\ slice_end \in 0..MaxIndex
    /\ lyric_slice = <<>>
    /\ syllable_counter = 0
    /\ IdleCount /\ IdleNormal /\ IdleShards /\ IdleMain
    /\ result = "" /\ note_shards = <<>>
    /\ pc = "slice_for"

SliceLoop ==
    /\ pc = "slice_for"
    /\ t_pos < Len(tokens)
    /\ LET st == SliceStep([lyric_slice |-> lyric_slice,
                            syllable_counter |-> syllable_counter],
                           tokens[t_pos + 1], slice_start, slice_end)
       IN  /\ lyric_slice' = st.lyric_slice
           /\ syllable_counter' = st.syllable_counter
    /\ t_pos' = t_pos + 1
    /\ UNCHANGED <<pc, lilypond_notes, lilypond_lyrics, tokens, countVars,
                   normalVars, slice_start, slice_end, result, shardVars,
                   note_shards, mainVars>>

SliceReturn ==
    /\ pc = "slice_for"
    /\ t_pos = Len(tokens)
    /\ result' = Join(lyric_slice)
    /\ pc' = "slice_done"
    /\ UNCHANGED <<tokenVars, countVars, normalVars, sliceVars, shardVars,
                   note_shards, mainVars>>

NextSlice == SliceLoop \/ SliceReturn

SpecSlice == InitSlice /\ [][NextSlice]_vars

---------------------------------------------------------------------------
(* create_normal_note_shards, the splitting loop (lines 279-291).  The     *)
(* normalized lines (line 272) and the per-segment lengths (line 276) come *)
(* from the abjad parser and are the inputs here.                          *)

\* x.startswith('%%%')
IsComment(x) == StartsWith(x, "%%%")

\* sum([x.startswith('%%%') for x in shard])
NumComments(list) == Cardinality({i \in 1..Len(list) : IsComment(list[i])})

InitShards ==
    /\ all_notes \in BoundedSeq(NormalizedVocabulary, MaxNotes)
    /\ normalized_notes = all_notes
    \* str.split (line 275) returns at least one segment
    /\ shard_lengths \in BoundedSeq(0..MaxLength, MaxSegments) \ {<<>>}
    /\ l_pos = 0
    /\ shard = <<>>
    /\ num_comments_found = 0
    /\ num_comments_compensated = 0
    /\ note_shards = <<>>
    /\ IdleTokens /\ IdleCount /\ IdleNormal /\ IdleSlice /\ IdleMain
    /\ result = ""
    /\ pc = "shards_for"

\* lines 280-284: the next length is taken and the nominal shard cut off
ShardsFor ==
    /\ pc = "shards_for"
    /\ l_pos < Len(shard_lengths)
    /\ LET l == shard_lengths[l_pos + 1]
       IN  /\ shard' = TakeList(normalized_notes, l)
           /\ normalized_notes' = DropList(normalized_notes, l)
    /\ num_comments_found' = NumComments(shard')
    /\ num_comments_compensated' = 0
    /\ l_pos' = l_pos + 1
    /\ pc' = "shards_while"
    /\ UNCHANGED <<tokenVars, countVars, normalVars, sliceVars, result,
                   all_notes, shard_lengths, note_shards, mainVars>>

\* line 285: the loop test, true
ShardsWhileTest ==
    /\ pc = "shards_while"
    /\ num_comments_found # num_comments_compensated
    /\ pc' = "shards_body"
    /\ UNCHANGED <<tokenVars, countVars, normalVars, sliceVars, result,
                   shardVars, note_shards, mainVars>>

\* lines 286-289: the loop body
ShardsWhileBody ==
    /\ pc = "shards_body"
    /\ LET shard_addition == TakeList(normalized_notes, num_comments_found)
       IN  /\ normalized_notes' = DropList(normalized_notes, num_comments_found)
           /\ shard' = shard \o shard_addition
           /\ num_comments_found' = NumComments(shard')
           /\ num_comments_compensated' =
                  num_comments_compensated + Len(shard_addition)
    /\ pc' = "shards_while"
    /\ UNCHANGED <<tokenVars, countVars, normalVars, sliceVars, result,
                   all_notes, shard_lengths, l_pos, note_shards, mainVars>>

\* line 285 false, line 290: the shard is joined and appended
ShardsAppend ==
    /\ pc = "shards_while"
    /\ num_comments_found = num_comments_compensated
    /\ note_shards' = note_shards \o <<Join(shard)>>
    /\ pc' = "shards_for"
    /\ UNCHANGED <<tokenVars, countVars, normalVars, sliceVars, result,
                   shardVars, mainVars>>

\* line 291
ShardsReturn ==
    /\ pc = "shards_for"
    /\ l_pos = Len(shard_lengths)
    /\ pc' = "shards_done"
    /\ UNCHANGED <<tokenVars, countVars, normalVars, sliceVars, result,
                   shardVars, note_shards, mainVars>>

NextShards ==
    \/ ShardsFor
    \/ ShardsWhileTest
    \/ ShardsWhileBody
    \/ ShardsAppend
    \/ ShardsReturn

\* The interpreter keeps executing a running function: weak fairness.
SpecShards == InitShards /\ [][NextShards]_vars /\ WF_vars(NextShards)

---------------------------------------------------------------------------
(* main, the per-shard lyric selection (lines 300, 311-320, 338, 342,      *)
(* 350).  Rendering (lines 322-327) writes none of these locals; it is     *)
(* modelled by its two outcomes, done or raised.  Packaging (lines         *)
(* 354-363) runs after the loop and is left out.                           *)

\* line 300
partials ==
    <<4, 1, 4, 1, 1, 1, 1, 1, 1, 1, 1, 1, 1, 1, 1,
      1, 1, 1, 1, 1, 1, 1, 1, 1, 1, 1, 1, 1, 1, 1>>

\* One shard more than partials has entries.
ManyShards == [i \in 1..(Len(partials) + 1) |-> "c'4"]

InitMain ==
    /\ note_shards \in BoundedSeq(ShardVocabulary, MaxShards) \cup {ManyShards}
    /\ lyrics \in {Join(ts) : ts \in BoundedSeq(MainVocabulary, MaxMainTokens)}
                  \cup {TabbedMaryLine}
    /\ shard_num = 0
    /\ num_seen_singable_notes = 0
    /\ qustn_lyrics = ""
    /\ answr_lyrics = ""
    /\ IdleTokens /\ IdleCount /\ IdleNormal /\ IdleSlice /\ IdleShards
    /\ result = ""
    /\ pc = "main_for"

\* An iteration of the for loop of line 312 that ends at line 315:
\* partials[shard_num] raises IndexError before any local is written.
MainPartialsRaise ==
    /\ pc = "main_for"
    /\ shard_num < Len(note_shards)
    /\ shard_num >= Len(partials)
    /\ pc' = "IndexError_partials"
    /\ UNCHANGED <<tokenVars, countVars, normalVars, sliceVars, result,
                   shardVars, note_shards, mainVars>>

\* An iteration of the for loop of line 312 that ends in lines 322-327:
\* the templates are opened and the external tools are run there, and a
\* missing file or program raises after lines 319-320 wrote their locals.
\* Whether they raise is the environment's choice.
MainRenderRaise ==
    /\ pc = "main_for"
    /\ shard_num < Len(note_shards)
    /\ shard_num < Len(partials)
    /\ LET cur_notes == note_shards[shard_num + 1]
           num_lyric_relevant_notes == count_singable_notes(cur_notes, 0)
       IN  /\ answr_lyrics' =
                  create_lyric_slice(lyrics, num_seen_singable_notes,
                      num_seen_singable_notes + num_lyric_relevant_notes + 1)
           /\ num_seen_singable_notes' =
                  num_seen_singable_notes + num_lyric_relevant_notes
    /\ pc' = "render_error"
    /\ UNCHANGED <<tokenVars, countVars, normalVars, sliceVars, result,
                   shardVars, note_shards, lyrics, shard_num, qustn_lyrics>>

\* A whole iteration of the for loop of line 312, rendering done.  The
\* note's fields normalize the question lyrics, then the answer lyrics
\* (lines 338, 342); an IndexError raised there ends main.
MainLoop ==
    /\ pc = "main_for"
    /\ shard_num < Len(note_shards)
    /\ shard_num < Len(partials)
    /\ LET cur_notes == note_shards[shard_num + 1]
           num_lyric_relevant_notes == count_singable_notes(cur_notes, 0)
           answr == create_lyric_slice(lyrics, num_seen_singable_notes,
                        num_seen_singable_notes + num_lyric_relevant_notes + 1)
           raised == \/ create_normal_lyrics(qustn_lyrics).raised
                     \/ create_normal_lyrics(answr).raised
       IN  /\ answr_lyrics' = answr
           /\ num_seen_singable_notes' =
                  num_seen_singable_notes + num_lyric_relevant_notes
           /\ IF raised
              THEN /\ pc' = "IndexError"
                   /\ UNCHANGED <<qustn_lyrics, shard_num>>
              ELSE /\ pc' = pc
                   /\ qustn_lyrics' = answr
                   /\ shard_num' = shard_num + 1
    /\ UNCHANGED <<tokenVars, countVars, normalVars, sliceVars, result,
                   shardVars, note_shards, lyrics>>

MainReturn ==
    /\ pc = "main_for"
    /\ shard_num = Len(note_shards)
    /\ pc' = "main_done"
    /\ UNCHANGED <<tokenVars, countVars, normalVars, sliceVars, result,
                   shardVars, note_shards, mainVars>>

NextMain ==
    \/ MainPartialsRaise
    \/ MainRenderRaise
    \/ MainLoop
    \/ MainReturn

SpecMain == InitMain /\ [][NextMain]_vars

---------------------------------------------------------------------------
(* Reference definitions used by the properties.                           *)

RECURSIVE Sum(_)
Sum(list) == IF list = <<>> THEN 0 ELSE Head(list) + Sum(Tail(list))

RECURSIVE Flatten(_)
Flatten(lists) ==
    IF lists = <<>> THEN <<>> ELSE Head(lists) \o Flatten(Tail(lists))

\* The tokens of a list of strings, in order.
TokensOf(strings) == Flatten([i \in 1..Len(strings) |-> Split(strings[i])])

NumNonComments(list) == Len(list) - NumComments(list)

\* The per-segment lengths add up to the events of the normalized sequence.
ConsistentLengths == Sum(shard_lengths) = NumNonComments(all_notes)

\* The length of the block at the head of rest that holds l events, the
\* comments before and between them and the comments right after the last.
RECURSIVE BlockLen(_, _)
BlockLen(rest, l) ==
    IF rest = <<>> THEN 0
    ELSE IF IsComment(Head(rest)) THEN 1 + BlockLen(Tail(rest), l)
    ELSE IF l > 0 THEN 1 + BlockLen(Tail(rest), l - 1)
    ELSE 0

\* Every segment holds an event and the sequence starts with one.
EventfulSegments ==
    /\ \A i \in 1..Len(shard_lengths) : shard_lengths[i] >= 1
    /\ all_notes # <<>> => ~IsComment(all_notes[1])

RECURSIVE ReferenceBlocks(_, _)
ReferenceBlocks(rest, lengths) ==
    IF lengths = <<>> THEN <<>>
    ELSE LET n == BlockLen(rest, Head(lengths))
         IN  <<TakeList(rest, n)>>
                 \o ReferenceBlocks(DropList(rest, n), Tail(lengths))

\* The running syllable position of token i: the non-join tokens before it.
Position(toks, i) == Cardinality({j \in 1..(i - 1) : toks[j] # "--"})

\* The tokens whose position lies in lo..hi, in order.
RECURSIVE Window(_, _, _, _)
Window(toks, i, lo, hi) ==
    IF i > Len(toks) THEN <<>>
    ELSE (IF lo <= Position(toks, i) /\ Position(toks, i) <= hi
          THEN <<toks[i]>> ELSE <<>>) \o Window(toks, i + 1, lo, hi)

IsMarker(t) == t \in {"--", "__"}

\* Every join marker has a word somewhere before it.
JoinsHaveWord(toks) ==
    \A i \in 1..Len(toks) :
        toks[i] = "--" => \E j \in 1..(i - 1) : ~IsMarker(toks[j])

\* Every join marker stands between two syllables.
WellFormedLine(toks) ==
    \A i \in 1..Len(toks) :
        toks[i] = "--" =>
            /\ 1 < i /\ i < Len(toks)
            /\ ~IsMarker(toks[i - 1])
            /\ ~IsMarker(toks[i + 1])

RECURSIVE DropTrailingJoins(_)
DropTrailingJoins(toks) ==
    IF toks # <<>> /\ toks[Len(toks)] = "--"
    THEN DropTrailingJoins(SubSeq(toks, 1, Len(toks) - 1))
    ELSE toks

\* The words of a melisma-free token sequence, read from its end: a token
\* that follows a join marker is glued to the word before the marker.
RECURSIVE ReferenceWords(_)
ReferenceWords(toks) ==
    IF toks = <<>> THEN <<>>
    ELSE LET last == toks[Len(toks)]
             front == SubSeq(toks, 1, Len(toks) - 1)
         IN  IF last = "--" THEN ReferenceWords(front)
             ELSE IF front # <<>> /\ front[Len(front)] = "--"
                  THEN LET before == ReferenceWords(DropTrailingJoins(front))
                       IN  [before EXCEPT ![Len(before)] = @ \o last]
                  ELSE Append(ReferenceWords(front), last)

WithoutMelisma(toks) == SelectSeq(toks, LAMBDA t : t # "__")

HasPortamento(toks) ==
    \E i \in 1..Len(toks) : EndsWith(toks[i], "(") \/ EndsWith(toks[i], ")")

IsPlain(t) == ~EndsWith(t, "(") /\ ~EndsWith(t, ")") /\ ~EndsWith(t, "~")

\* A pitch ending in '(', plain pitches, a pitch ending in ')'.
IsPortamentoGroup(toks) ==
    /\ Len(toks) >= 2
    /\ \A i \in 1..Len(toks) : IsPitch(toks[i])
    /\ EndsWith(toks[1], "(")
    /\ EndsWith(toks[Len(toks)], ")")
    /\ \A i \in 2..(Len(toks) - 1) : IsPlain(toks[i])

Opens(toks, k) == Cardinality({i \in 1..k : EndsWith(toks[i], "(")})
Closes(toks, k) == Cardinality({i \in 1..k : EndsWith(toks[i], ")")})

\* Every prefix opens at least as many groups as it closes; the totals agree.
Balanced(toks) ==
    /\ \A k \in 0..Len(toks) : Opens(toks, k) >= Closes(toks, k)
    /\ Opens(toks, Len(toks)) = Closes(toks, Len(toks))

\* Pitch tokens not directly preceded by a tied token.
UntiedPitches(toks) ==
    {i \in 1..Len(toks) :
        IsPitch(toks[i]) /\ (i = 1 \/ ~EndsWith(toks[i - 1], "~"))}

---------------------------------------------------------------------------
(* Properties.                                                             *)

\* C1: when create_normal_note_shards returns and the lengths add up to the
\* number of non-comment tokens, the tokens of the returned shards, in
\* order, are exactly the tokens of the normalized sequence.  Stated for
\* sequences that start with an event and segments of at least one event.
ShardReconstruction ==
    (pc = "shards_done" /\ ConsistentLengths /\ EventfulSegments)
        => TokensOf(note_shards) = TokensOf(all_notes)

\* C2: when create_normal_note_shards returns and the lengths are
\* consistent, the i-th shard is the block of shard_lengths[i] events with
\* the comments between them and the comments right after the last event.
\* Stated for sequences that start with an event and segments of at least
\* one event, where the claim's blocks are determined.
ShardBlocks ==
    (pc = "shards_done" /\ ConsistentLengths /\ EventfulSegments)
        => LET blocks == ReferenceBlocks(all_notes, shard_lengths)
           IN  /\ Len(note_shards) = Len(blocks)
               /\ \A i \in 1..Len(blocks) : note_shards[i] = Join(blocks[i])

\* C3 as stated: create_lyric_slice returns the tokens whose syllable
\* position lies in start..end inclusive; slice("one two three four", 1, 3)
\* is "two three four".
SliceInclusive ==
    (pc = "slice_done" /\ slice_start <= slice_end)
        => /\ result = Join(Window(tokens, 1, slice_start, slice_end))
           /\ (lilypond_lyrics = CountingLine /\ slice_start = 1 /\ slice_end = 3)
                  => result = "two three four"

\* C3 as amended: create_lyric_slice returns the tokens whose syllable
\* position lies in start..end-1; slice("one two three four", 1, 3) is
\* "two three".
SliceHalfOpen ==
    pc = "slice_done"
        => /\ result = Join(Window(tokens, 1, slice_start, slice_end - 1))
           /\ (lilypond_lyrics \in {CountingLine, TabbedCountingLine}
                  /\ slice_start = 1 /\ slice_end = 3)
                  => result = "two three"

SliceHalfOpenWitness ==
    /\ pc = "slice_done"
    /\ lilypond_lyrics = CountingLine
    /\ slice_start = 1 /\ slice_end = 3
    /\ result = "two three"

\* C4: a portamento group without ties, counted from depth 0, gives the
\* count 1 and leaves the depth at 0; "c4( d8 e8)" counts 1.
PortamentoCountsOnce ==
    (pc = "count_done" /\ IsPortamentoGroup(tokens))
        => /\ singable_notes = 1 /\ open_parantheses = 0
           /\ lilypond_notes = "c4( d8 e8)" => singable_notes = 1

\* What lines 185-198 compute for such a group: the opening pitch counts
\* once at line 196 and the closing pitch twice, at line 189 and again at
\* line 196, so the count is 3 whatever the number of pitches inside.
PortamentoCountsThrice ==
    (pc = "count_done" /\ IsPortamentoGroup(tokens))
        => /\ singable_notes = 3 /\ open_parantheses = 0
           /\ lilypond_notes = "c4( d8 e8)" => singable_notes = 3

PortamentoCountsThriceWitness ==
    /\ pc = "count_done"
    /\ lilypond_notes = "c4( d8 e8)"
    /\ singable_notes = 3
    /\ open_parantheses = 0

\* C5: without portamento markers the count is the number of pitch tokens
\* not directly preceded by a tied token; "c4~ c8" counts 1, and plain
\* pitches count one each.
TieCollapsing ==
    (pc = "count_done" /\ ~HasPortamento(tokens))
        => /\ singable_notes = Cardinality(UntiedPitches(tokens))
           /\ lilypond_notes = "c4~ c8" => singable_notes = 1
           /\ (\A i \in 1..Len(tokens) : IsPitch(tokens[i]) /\ IsPlain(tokens[i]))
                  => singable_notes = Len(tokens)

TieCollapsingWitness ==
    /\ pc = "count_done"
    /\ lilypond_notes = "c4~ c4~ c8"
    /\ singable_notes = 1

\* C6: when every join marker has a word before it, create_normal_lyrics
\* does not raise and returns the words of the scan joined by spaces; the
\* Mary line gives "Mary had a little lamb", and a line without markers is
\* returned unchanged.
LyricNormalization ==
    JoinsHaveWord(tokens)
        => /\ pc # "IndexError"
           /\ pc = "normal_done"
                  => /\ result = Join(ReferenceWords(WithoutMelisma(tokens)))
                     /\ lilypond_lyrics \in {MaryLine, TabbedMaryLine}
                            => result = "Mary had a little lamb"
                     /\ (\A i \in 1..Len(tokens) : ~IsMarker(tokens[i]))
                            => result = Join(tokens) /\ Split(result) = tokens

LyricNormalizationWitness ==
    /\ pc = "normal_done"
    /\ lilypond_lyrics = MaryLine
    /\ result = "Mary had a little lamb"

\* C7: create_normal_note_shards never returns when the lengths do not add
\* up to the events of the normalized sequence.
SegmentCountMismatch ==
    pc = "shards_done" => ConsistentLengths

\* C8: create_normal_note_shards terminates.
ShardsTerminate == <>(pc = "shards_done")

\* C9: for a lyric line in which every join marker stands between two
\* syllables, normalizing the slices main takes never raises.
SliceAcceptable ==
    WellFormedLine(Split(lyrics)) => pc # "IndexError"

\* C10: for a token sequence with balanced portamento suffixes the depth is
\* never negative during the scan and is 0 after the last token.
DepthNonNegative ==
    Balanced(tokens)
        => /\ open_parantheses >= 0
           /\ pc = "count_done" => open_parantheses = 0

===========================================================================
